---- MODULE Spec2Model ----
(***************************************************************************)
(* TemplateMap (src/templates/template_map.cpp): a map file used as a      *)
(* template of another map.  The model follows one TemplateMap object      *)
(* (the overlay) through loadTemplateFileImpl, postLoadConfiguration,      *)
(* calculateTransformation, drawTemplate, getTemplateExtent,               *)
(* unloadTemplateFileImpl, takeTemplateMap and setTemplateMap, together    *)
(* with the process-wide list locked_maps and the chain of nested          *)
(* loadTemplateFileImpl calls that an import of a map with templates       *)
(* starts.  StretchMapDialog (src/gui/map/map_dialog_stretch.cpp) is       *)
(* followed from its construction to OK.                                   *)
(***************************************************************************)
EXTENDS Integers, Sequences, FiniteSets, TLC

\* ------------------------------------------------------------------ bounds
\* Number of distinct template paths.
NumPaths == 2
\* Largest number of templates an imported map file declares.
MaxTemplates == 2
\* Largest number of warnings an importer collects.
MaxWarnings == 2

Paths == 1..NumPaths
\* Cap of the call chain explored; the guard keeps the code below it.
MaxDepth == NumPaths + 2

VARIABLES
    locked_maps,       \* TemplateMap::locked_maps, a QStringList
    stack,             \* loadTemplateFileImpl calls whose doImport() is running
    template_map,      \* the overlay's std::unique_ptr<Map>
    template_state,    \* the overlay's Template::template_state
    error_string,      \* the overlay's error string (setErrorString)
    is_georeferenced,  \* the overlay's Template::is_georeferenced
    transform,         \* the overlay's TemplateTransform
    matrices,          \* the matrices updateTransformationMatrices() derives
    last,              \* the latest event: the call that returned (arguments,
                       \* result, effects), or "Importing" once a doImport() began
    dialog             \* a StretchMapDialog: its widgets and the changeScale calls

\* The state of the overlay and of the loads in progress.
overlay_vars == << locked_maps, stack, template_map, template_state, error_string,
                   is_georeferenced, transform, matrices, last >>

vars == << locked_maps, stack, template_map, template_state, error_string,
           is_georeferenced, transform, matrices, last, dialog >>

\* --------------------------------------------------------- QStringList
\* QStringList::contains
Contains(list, x) == \E i \in 1..Len(list) : list[i] = x

\* QStringList::removeAll
RemoveAll(list, x) == SelectSeq(list, LAMBDA y : y # x)

\* ------------------------------------------------------------ documents
\* An empty std::unique_ptr<Map>.
NoMap == [origin |-> "null", num_templates |-> 0]

\* std::make_unique<Map>() filled by an importer that read n templates.
ImportedMap(n) == [origin |-> "load", num_templates |-> n]

\* A Map handed in through setTemplateMap.
GivenMap(n) == [origin |-> "set", num_templates |-> n]

\* Map::deleteTemplate(i) on a map of n templates, as its template count.
DeleteTemplate(n, i) == IF 0 <= i /\ i < n THEN n - 1 ELSE n

RECURSIVE DeleteTemplatesDownTo(_, _, _)
DeleteTemplatesDownTo(n, i, stop) ==
    IF i >= stop THEN DeleteTemplatesDownTo(DeleteTemplate(n, i), i - 1, stop)
    ELSE n

\* A slip in the loop condition (i > 0): the first template survives.
RemoveTemplatesKeepFirst(map) ==
    [map EXCEPT !.num_templates = DeleteTemplatesDownTo(map.num_templates, map.num_templates - 1, 1)]

\* for (i = getNumTemplates()-1; i >= 0; i--) deleteTemplate(i)
RemoveTemplates(map) ==
    [map EXCEPT !.num_templates = DeleteTemplatesDownTo(map.num_templates, map.num_templates - 1, 0)]

\* ------------------------------------------------------- error strings
GenericError == "Cannot load map file, aborting."
Warnings == {"warning 1", "warning 2"}
\* What reading back() of an empty container may yield.
Garbage == {"", "garbage"}

WarningLists == UNION { [1..n -> Warnings] : n \in 0..MaxWarnings }

\* std::vector::back()
Back(list) == list[Len(list)]

\* ---------------------------------------------------------------- events
NoEvent ==
    [ op |-> "none", prev |-> "none", path |-> 0, configuring |-> FALSE,
      nested |-> FALSE, locked_at_call |-> FALSE, made_importer |-> FALSE,
      ran_import |-> FALSE, import_ok |-> FALSE, result |-> FALSE,
      guard_before |-> << >>, error |-> "unset",
      map_before |-> NoMap, new_map |-> NoMap, state_before |-> "unset",
      num_templates |-> 0, prev_map |-> NoMap,
      extent |-> "unset", emitted |-> 0, copy_state |-> "unset",
      foreign_georef |-> "unset", host_georef |-> "unset", pass_points |-> << >>,
      georeferenced_before |-> FALSE,
      clip_rect |-> "unset", transformed_clip_rect |-> "unset",
      ok |-> << >>, fit |-> FALSE, q_transform |-> "unset",
      transform_before |-> "unset", matrices_before |-> "unset",
      out_center_in_view |-> "unset",
      scale |-> 0, on_screen |-> FALSE, physical_dpi |-> 0, logical_dpi |-> 0,
      pixels_per_inch |-> 0, scaling |-> << 0, 1 >>, options |-> {},
      painter_transformed |-> FALSE ]

\* The record of a call of op.
Event(op) == [NoEvent EXCEPT !.op = op]

\* -------------------------------------------------- loadTemplateFileImpl
\* The check of locked_maps left out.
RecursionLockedNever(path) == FALSE

\* if (locked_maps.contains(template_path)) return true;
RecursionLocked(path) == Contains(locked_maps, path)

\* locked_maps.append(template_path)
Lock(list, path) == Append(list, path)

\* The removeAll left out.
UnlockNothing(list, path) == list

\* locked_maps.removeAll(template_path)
Unlock(list, path) == RemoveAll(list, path)

\* The result of doImport() ignored.
NewTemplateValidIgnoringImport(has_importer, import_ok) == has_importer

\* auto new_template_valid = importer && importer->doImport();
NewTemplateValid(has_importer, import_ok) == has_importer /\ import_ok

\* The string handed to setErrorString, "unset" when it is not called.
ErrorOnFailure(valid, configuring, has_importer, warning) ==
    IF valid \/ ~configuring THEN "unset"
    ELSE IF has_importer THEN warning
    ELSE GenericError

\* Template::loadTemplateFile: Unloaded -> Loaded on a successful Load.
StateAfterLoad(state, result) == IF result THEN "Loaded" ELSE state

\* The effects of a finished loadTemplateFileImpl on the object it ran on:
\* the overlay when the call is the outermost one, else a template of the
\* map the enclosing import is building (its fields are kept in last only).
Returned(ev, rest) ==
    /\ last' = IF ev.nested THEN ev
                ELSE [ev EXCEPT !.map_before = template_map,
                                !.state_before = template_state]
    /\ IF ev.nested
       THEN UNCHANGED << template_map, template_state, error_string >>
       ELSE /\ template_map' = IF ev.result /\ ev.ran_import THEN ev.new_map
                               ELSE template_map
            /\ template_state' = StateAfterLoad(template_state, ev.result)
            /\ error_string' = IF ev.error = "unset" THEN error_string
                               ELSE ev.error
    /\ stack' = rest

\* The part of loadTemplateFileImpl up to the call of doImport().
Enter(path, configuring, has_importer, callers) ==
    LET ev == [Event("Load") EXCEPT
                  !.path = path, !.configuring = configuring,
                  !.nested = (callers # << >>),
                  !.guard_before = locked_maps,
                  !.locked_at_call = Contains(locked_maps, path)]
    IN  IF RecursionLocked(path)
        THEN /\ Returned([ev EXCEPT !.result = TRUE], callers)
             /\ UNCHANGED locked_maps
        ELSE IF ~has_importer
        THEN \* importer && ... : doImport() is not called
             /\ locked_maps' = Unlock(Lock(locked_maps, path), path)
             /\ Returned([ev EXCEPT
                    !.result = NewTemplateValid(FALSE, FALSE),
                    !.error = ErrorOnFailure(NewTemplateValid(FALSE, FALSE),
                                             configuring, FALSE, "unset")],
                         callers)
        ELSE /\ locked_maps' = Lock(locked_maps, path)
             /\ stack' = Append(callers,
                    [ path |-> path, configuring |-> configuring,
                      num_templates |-> 0, guard_before |-> locked_maps,
                      locked_at_call |-> Contains(locked_maps, path) ])
             /\ last' = Event("Importing")
             /\ UNCHANGED << template_map, template_state, error_string >>

\* The record of the call a frame stands for, when it ends.
CallOf(frame) ==
    [Event("Load") EXCEPT
        !.path = frame.path, !.configuring = frame.configuring,
        !.nested = (Len(stack) > 1),
        !.guard_before = frame.guard_before,
        !.locked_at_call = frame.locked_at_call,
        !.made_importer = TRUE]

\* The overlay's Load: Template::loadTemplateFile(configuring).
LoadTemplateFile(path, configuring, has_importer) ==
    /\ stack = << >>
    /\ template_state # "Loaded"
    /\ Enter(path, configuring, has_importer, << >>)
    /\ UNCHANGED << is_georeferenced, transform, matrices, dialog >>

\* The running importer reads one more template of the file and loads it.
ImportNestedTemplate(path, has_importer) ==
    /\ stack # << >>
    /\ Len(stack) < MaxDepth
    /\ stack[Len(stack)].num_templates < MaxTemplates
    /\ Enter(path, FALSE, has_importer,
             [stack EXCEPT ![Len(stack)].num_templates = @ + 1])
    /\ UNCHANGED << is_georeferenced, transform, matrices, dialog >>

\* doImport() returns; the rest of loadTemplateFileImpl runs.
FinishImport(import_ok, warnings) ==
    /\ stack # << >>
    /\ LET frame == stack[Len(stack)]
           valid == NewTemplateValid(TRUE, import_ok)
       IN  /\ locked_maps' = Unlock(locked_maps, frame.path)
           /\ \E warning \in (IF warnings = << >> THEN Garbage ELSE {Back(warnings)}) :
                Returned([CallOf(frame) EXCEPT
                            !.ran_import = TRUE, !.import_ok = import_ok,
                            !.result = valid,
                            !.num_templates = frame.num_templates,
                            !.new_map = RemoveTemplates(ImportedMap(frame.num_templates)),
                            !.error = ErrorOnFailure(valid, frame.configuring, TRUE, warning)],
                         SubSeq(stack, 1, Len(stack) - 1))
    /\ UNCHANGED << is_georeferenced, transform, matrices, dialog >>

\* doImport() raises an error: the call is left without reaching removeAll.
ImportThrows ==
    /\ stack # << >>
    /\ stack' = SubSeq(stack, 1, Len(stack) - 1)
    /\ last' = [CallOf(stack[Len(stack)]) EXCEPT !.op = "LoadThrew", !.ran_import = TRUE]
    /\ UNCHANGED << locked_maps, template_map, template_state, error_string,
                    is_georeferenced, transform, matrices, dialog >>

\* ------------------------------------------------ unloadTemplateFileImpl
\* The reset left out.
UnloadKeepsMap(map) == map

\* template_map.reset()
UnloadTemplateFileImpl(map) == NoMap

\* Template::unloadTemplateFile: the overlay gives up its map, -> Unloaded.
UnloadTemplateFile ==
    /\ stack = << >>
    /\ template_map' = UnloadTemplateFileImpl(template_map)
    /\ template_state' = "Unloaded"
    /\ last' = [Event("Unload") EXCEPT
                   !.prev = last.op, !.prev_map = last.map_before,
                   !.map_before = template_map, !.state_before = template_state]
    /\ UNCHANGED << locked_maps, stack, error_string, is_georeferenced,
                    transform, matrices, dialog >>

\* ----------------------------------------------------- getTemplateExtent
\* QRectF(): the empty rectangle.
EmptyRect == "empty"
\* What Map::calculateExtent may return.
Extents == {EmptyRect, "bounding box"}

\* QRectF extent; if (template_map) extent = template_map->calculateExtent(...)
TemplateExtent(map, calculated) == IF map # NoMap THEN calculated ELSE EmptyRect

GetTemplateExtent(calculated) ==
    /\ stack = << >>
    /\ last' = [Event("GetExtent") EXCEPT
                   !.prev = IF last.op = "Load" /\ ~last.result THEN "LoadFailed"
                            ELSE last.op,
                   !.prev_map = last.map_before, !.map_before = template_map,
                   !.extent = TemplateExtent(template_map, calculated)]
    /\ UNCHANGED << locked_maps, stack, template_map, template_state, error_string,
                    is_georeferenced, transform, matrices, dialog >>

\* ------------------------------------------- takeTemplateMap, setTemplateMap
\* The test of the state left out.
TakesMapInAnyState(state) == TRUE

\* if (template_state == Loaded)
TakesMap(state) == state = "Loaded"

\* The record of a takeTemplateMap call on the overlay as it is.
TakeEvent ==
    [Event("Take") EXCEPT
        !.prev = last.op, !.prev_map = last.map_before,
        !.map_before = template_map, !.state_before = template_state]

TakeTemplateMap ==
    /\ stack = << >>
    /\ IF TakesMap(template_state)
       THEN \* swap(result, template_map); setTemplateState(Unloaded); emit
            /\ template_map' = NoMap
            /\ template_state' = "Unloaded"
            /\ last' = [TakeEvent EXCEPT !.new_map = template_map, !.emitted = 1]
       ELSE /\ last' = [TakeEvent EXCEPT !.new_map = NoMap]
            /\ UNCHANGED << template_map, template_state >>
    /\ UNCHANGED << locked_maps, stack, error_string, is_georeferenced,
                    transform, matrices, dialog >>

SetTemplateMap(map) ==
    /\ stack = << >>
    /\ template_map' = map
    /\ last' = [Event("Set") EXCEPT !.new_map = map]
    /\ UNCHANGED << locked_maps, stack, template_state, error_string,
                    is_georeferenced, transform, matrices, dialog >>

\* -------------------------------------------------------------- duplicate
\* TemplateMap(const TemplateMap&): Template(proto) copies the state, and
\* the copy starts without a map.
CopiedState(state) == state

\* duplicate(): the copy of the overlay, which loads its file again when
\* the overlay is Loaded; the result of that Load is not looked at.  The
\* file read for the copy declares num_templates templates.
Duplicate(path, has_importer, import_ok, num_templates) ==
    /\ stack = << >>
    /\ LET loads == template_state = "Loaded"
           locked == RecursionLocked(path)
           valid == NewTemplateValid(has_importer, import_ok)
           copy_map == IF loads /\ ~locked /\ valid
                       THEN RemoveTemplates(ImportedMap(num_templates))
                       ELSE NoMap
       IN  /\ locked_maps' = IF loads /\ ~locked
                              THEN Unlock(Lock(locked_maps, path), path)
                              ELSE locked_maps
           /\ last' = [Event("Duplicate") EXCEPT
                          !.path = path, !.state_before = template_state,
                          !.map_before = template_map,
                          !.made_importer = loads /\ ~locked /\ has_importer,
                          !.ran_import = loads /\ ~locked /\ has_importer,
                          !.import_ok = import_ok,
                          !.result = loads /\ (locked \/ valid),
                          !.copy_state = CopiedState(template_state),
                          !.new_map = copy_map]
    /\ UNCHANGED << stack, template_map, template_state, error_string,
                    is_georeferenced, transform, matrices, dialog >>

\* ------------------------------------------------ calculateTransformation
\* Points are pairs << x, y >> of whole numbers.
Plus(p, q) == << p[1] + q[1], p[2] + q[2] >>
Minus(p, q) == << p[1] - q[1], p[2] - q[2] >>
Abs(n) == IF n < 0 THEN -n ELSE n

\* A rotation by a number of quarter turns.
Turn(turns, p) ==
    CASE turns = 0 -> p
      [] turns = 1 -> << -p[2], p[1] >>
      [] turns = 2 -> << -p[1], -p[2] >>
      [] OTHER -> << p[2], -p[1] >>

\* A default-constructed QTransform.
IdentityQ == [m11 |-> 1, m12 |-> 0, m21 |-> 0, m22 |-> 1, dx |-> 0, dy |-> 0]

\* Georeferencing::toMapCoordF(&georef, src, &ok): where the host map has
\* the point src of the foreign map; the two georeferencings differ by a
\* rotation, a scale and an offset.
ToMapCoordF(host, src) ==
    Plus(Turn(host.turns, << host.scale * src[1], host.scale * src[2] >>), host.offset)

\* The distance of the second and third pass point from the first.
PassPointOffset == 128

\* The sources on one line.
PassPointSourcesOnOneAxis(src_origin) ==
    << src_origin,
       Plus(src_origin, << PassPointOffset, 0 >>),
       Plus(src_origin, << 2 * PassPointOffset, 0 >>) >>

\* src_origin, src_origin + MapCoordF{128, 0}, src_origin + MapCoordF{0, 128}
PassPointSources(src_origin) ==
    << src_origin,
       Plus(src_origin, << PassPointOffset, 0 >>),
       Plus(src_origin, << 0, PassPointOffset >>) >>

\* passpoints.resize(3) and the three src_coords / dest_coords pairs.
PassPoints(src_origin, host) ==
    [i \in 1..3 |-> [src |-> PassPointSources(src_origin)[i],
                     dest |-> ToMapCoordF(host, PassPointSources(src_origin)[i])]]

\* Twice the area of the triangle of three points: 0 when they are on a line.
Cross(p0, p1, p2) ==
    (p1[1] - p0[1]) * (p2[2] - p0[2]) - (p1[2] - p0[2]) * (p2[1] - p0[1])

\* What estimateNonIsometricSimilarityTransform writes to q_transform: the
\* transform through the three pairs, and nothing for sources on a line.
EstimateNonIsometricSimilarityTransform(pp) ==
    LET det == Cross(pp[1].src, pp[2].src, pp[3].src)
        a == Minus(pp[2].src, pp[1].src)
        b == Minus(pp[3].src, pp[1].src)
        u == Minus(pp[2].dest, pp[1].dest)
        v == Minus(pp[3].dest, pp[1].dest)
    IN  IF det = 0 THEN IdentityQ
        ELSE LET m11 == (u[1] * b[2] - v[1] * a[2]) \div det
                 m21 == (v[1] * a[1] - u[1] * b[1]) \div det
                 m12 == (u[2] * b[2] - v[2] * a[2]) \div det
                 m22 == (v[2] * a[1] - u[2] * b[1]) \div det
             IN  [m11 |-> m11, m12 |-> m12, m21 |-> m21, m22 |-> m22,
                  dx |-> pp[1].dest[1] - (m11 * pp[1].src[1] + m21 * pp[1].src[2]),
                  dy |-> pp[1].dest[2] - (m12 * pp[1].src[1] + m22 * pp[1].src[2])]

\* A default-constructed TemplateTransform.
DefaultTransform == [x |-> 0, y |-> 0, rotation |-> 0, scale_x |-> 1, scale_y |-> 1]

\* TemplateTransform::fromQTransform: the offset, the rotation (in quarter
\* turns) and the two scales of q.
FromQTransform(q) ==
    [x |-> q.dx, y |-> q.dy,
     rotation |-> CASE q.m11 > 0 -> 0 [] q.m12 > 0 -> 1 [] q.m11 < 0 -> 2
                    [] q.m12 < 0 -> 3 [] OTHER -> 0,
     scale_x |-> Abs(q.m11) + Abs(q.m12),
     scale_y |-> Abs(q.m21) + Abs(q.m22)]

\* Template::updateTransformationMatrices: the matrices of a transform.
MatricesOf(t) ==
    [template_to_map |-> t,
     map_to_template |-> [turns |-> (4 - t.rotation) % 4, x |-> t.x, y |-> t.y,
                          div_x |-> t.scale_x, div_y |-> t.scale_y]]

\* Template::templateToMap
TemplateToMap(m, p) ==
    LET t == m.template_to_map
    IN  Plus(Turn(t.rotation, << t.scale_x * p[1], t.scale_y * p[2] >>), << t.x, t.y >>)

\* Template::mapToTemplate
MapToTemplate(m, p) ==
    LET i == m.map_to_template
        d == Turn(i.turns, Minus(p, << i.x, i.y >>))
    IN  << d[1] \div i.div_x, d[2] \div i.div_y >>

\* ok2 left out of the condition.
PassPointsOkWithoutLast(ok0, ok1, ok2, fit) == ok0 /\ ok1 /\ fit

\* if (ok0 && ok1 && ok2 && passpoints.estimate...(&q_transform))
PassPointsOk(ok0, ok1, ok2, fit) == ok0 /\ ok1 /\ ok2 /\ fit

\* The fitted transform thrown away.
CalculatedTransformKeepsOld(old, ok0, ok1, ok2, fit, q) == old

\* The transform calculateTransformation leaves in the overlay.
CalculatedTransform(old, ok0, ok1, ok2, fit, q) ==
    IF PassPointsOk(ok0, ok1, ok2, fit) THEN FromQTransform(q) ELSE old

\* The matrices calculateTransformation leaves in the overlay.
CalculatedMatrices(old, ok0, ok1, ok2, fit, q) ==
    IF PassPointsOk(ok0, ok1, ok2, fit) THEN MatricesOf(FromQTransform(q)) ELSE old

\* is_georeferenced left as it was.
GeoreferencedKept(old) == old

\* is_georeferenced = false;
GeoreferencedAfterConfiguration(old) == FALSE

\* postLoadConfiguration, with the calculateTransformation it calls.  It
\* reads the overlay's map, so it is taken on an overlay that owns one.
\* foreign is the georeferencing of the overlay's map, host what the
\* georeferencing of the host map makes of its points; ok0, ok1, ok2 and
\* fit are what toMapCoordF and the fit report.
PostLoadConfiguration(foreign, host, ok0, ok1, ok2, fit) ==
    /\ stack = << >>
    /\ template_state = "Loaded"
    /\ template_map # NoMap
    /\ LET passpoints == PassPoints(foreign.ref_point, host)
           q == EstimateNonIsometricSimilarityTransform(passpoints)
       IN  /\ is_georeferenced' = GeoreferencedAfterConfiguration(is_georeferenced)
           /\ transform' = CalculatedTransform(transform, ok0, ok1, ok2, fit, q)
           /\ matrices' = CalculatedMatrices(matrices, ok0, ok1, ok2, fit, q)
           /\ last' = [Event("Configure") EXCEPT
                          !.foreign_georef = foreign, !.host_georef = host,
                          !.pass_points = passpoints,
                          !.ok = << ok0, ok1, ok2 >>, !.fit = fit, !.q_transform = q,
                          !.transform_before = transform, !.matrices_before = matrices,
                          !.georeferenced_before = is_georeferenced,
                          !.out_center_in_view = FALSE, !.result = TRUE]
    /\ UNCHANGED << locked_maps, stack, template_map, template_state, error_string, dialog >>

\* ----------------------------------------------------------- drawTemplate
\* Tenths of a millimetre in an inch: the 25.4 of dpi / 25.4.
TenthMmPerInch == 254

\* Util::mmToPixelPhysical(scale), as a fraction << numerator, denominator >>.
MmToPixelPhysical(scale, pixels_per_inch) == << scale * pixels_per_inch * 10, TenthMmPerInch >>

\* dpi = physicalDpiX(); if (!dpi) dpi = logicalDpiX();
DeviceDpi(physical, logical) == IF physical = 0 THEN logical ELSE physical

\* The test dpi > 0 left out.
OutputScalingAlwaysMultiplied(scale, dpi) == << scale * dpi * 10, TenthMmPerInch >>

\* if (dpi > 0) scaling *= dpi / 25.4;
OutputScaling(scale, dpi) ==
    IF dpi > 0 THEN << scale * dpi * 10, TenthMmPerInch >> ELSE << scale, 1 >>

\* The scaling of the RenderConfig.
Scaling(scale, on_screen, pixels_per_inch, physical, logical) ==
    IF on_screen THEN MmToPixelPhysical(scale, pixels_per_inch)
    ELSE OutputScaling(scale, DeviceDpi(physical, logical))

\* The options of the RenderConfig.
Options(on_screen) == IF on_screen THEN {"Screen"} ELSE {}

\* Rectangles are [left, top, right, bottom], top being the smaller y; a
\* default-constructed QRectF is not valid.
NullRect == [null |-> TRUE]

\* The corners of a rectangle, in the order drawTemplate takes them.
TopLeft(r) == << r.left, r.top >>
TopRight(r) == << r.right, r.top >>
BottomLeft(r) == << r.left, r.bottom >>
BottomRight(r) == << r.right, r.bottom >>

Min2(a, b) == IF a < b THEN a ELSE b
Max2(a, b) == IF a > b THEN a ELSE b

\* rectIncludeSafe(rect, point): rect grown to hold point, and the point
\* alone when rect is not valid.
RectIncludeSafe(rect, point) ==
    IF "null" \in DOMAIN rect
    THEN [left |-> point[1], top |-> point[2], right |-> point[1], bottom |-> point[2]]
    ELSE [left |-> Min2(rect.left, point[1]), top |-> Min2(rect.top, point[2]),
          right |-> Max2(rect.right, point[1]), bottom |-> Max2(rect.bottom, point[2])]

\* The clip rectangle handed on as it came.
ClipRectUntransformed(clip_rect, m, georeferenced) == clip_rect

\* QRectF transformed_clip_rect; and the four rectIncludeSafe calls, or
\* transformed_clip_rect = clip_rect for a georeferenced template.
TransformedClipRect(clip_rect, m, georeferenced) ==
    IF ~georeferenced
    THEN RectIncludeSafe(
           RectIncludeSafe(
             RectIncludeSafe(
               RectIncludeSafe(NullRect, MapToTemplate(m, TopLeft(clip_rect))),
               MapToTemplate(m, TopRight(clip_rect))),
             MapToTemplate(m, BottomLeft(clip_rect))),
           MapToTemplate(m, BottomRight(clip_rect)))
    ELSE clip_rect

\* drawTemplate reads the overlay's map, so it is taken on an overlay that
\* owns one.
DrawTemplate(clip_rect, scale, on_screen, pixels_per_inch, physical, logical) ==
    /\ stack = << >>
    /\ template_state = "Loaded"
    /\ template_map # NoMap
    /\ last' = [Event("Draw") EXCEPT
                   !.clip_rect = clip_rect,
                   !.transformed_clip_rect =
                       TransformedClipRect(clip_rect, matrices, is_georeferenced),
                   !.scale = scale, !.on_screen = on_screen,
                   !.pixels_per_inch = pixels_per_inch,
                   !.physical_dpi = physical, !.logical_dpi = logical,
                   !.scaling = Scaling(scale, on_screen, pixels_per_inch, physical, logical),
                   !.options = Options(on_screen),
                   !.painter_transformed = ~is_georeferenced]
    /\ UNCHANGED << locked_maps, stack, template_map, template_state, error_string,
                    is_georeferenced, transform, matrices, dialog >>

\* -------------------------------------------------------- StretchMapDialog
\* No dialog has been constructed.
NoDialog ==
    [open |-> "none", georef_valid |-> FALSE, ref_point |-> << 0, 0 >>,
     center_origin_checked |-> FALSE,
     center_georef_checked |-> FALSE, center_georef_enabled |-> TRUE,
     center_other_checked |-> FALSE,
     other_x |-> 0, other_x_enabled |-> TRUE,
     other_y |-> 0, other_y_enabled |-> TRUE,
     adjust_georeferencing_checked |-> FALSE, adjust_georeferencing_enabled |-> TRUE,
     adjust_templates_checked |-> FALSE, adjust_templates_enabled |-> TRUE,
     calls |-> << >>]

\* updateWidgets()
UpdateWidgets(d) ==
    [d EXCEPT !.other_x_enabled = d.center_other_checked,
              !.other_y_enabled = d.center_other_checked,
              !.adjust_georeferencing_enabled = ~d.center_georef_checked]

\* The constructor: the widgets as built for a map whose georeferencing is
\* valid or not and has the reference point ref_point, and which has a
\* template that is not georeferenced or has none; then updateWidgets().
StretchMapDialog(georef_valid, ref_point, have_local_template) ==
    /\ dialog.open = "none"
    /\ dialog' = UpdateWidgets(
          [NoDialog EXCEPT
              !.open = "open",
              !.georef_valid = georef_valid, !.ref_point = ref_point,
              !.center_origin_checked = ~georef_valid,
              !.center_georef_checked = georef_valid,
              !.center_georef_enabled = georef_valid,
              !.adjust_georeferencing_checked = georef_valid,
              !.adjust_georeferencing_enabled = georef_valid,
              !.adjust_templates_checked = have_local_template,
              !.adjust_templates_enabled = have_local_template])
    /\ UNCHANGED overlay_vars

\* A click on one of the three radio buttons, which are exclusive: the
\* button is checked, the other two are not, and clicked() runs
\* updateWidgets().  A disabled button takes no click.
ClickRadio(radio) ==
    /\ dialog.open = "open"
    /\ radio = "georef" => dialog.center_georef_enabled
    /\ dialog' = UpdateWidgets(
          [dialog EXCEPT !.center_origin_checked = (radio = "origin"),
                         !.center_georef_checked = (radio = "georef"),
                         !.center_other_checked = (radio = "other")])
    /\ UNCHANGED overlay_vars

\* The user edits the X field, when it is enabled.
EditOtherX(x) ==
    /\ dialog.open = "open" /\ dialog.other_x_enabled
    /\ dialog' = [dialog EXCEPT !.other_x = x]
    /\ UNCHANGED overlay_vars

\* The user edits the Y field, when it is enabled.
EditOtherY(y) ==
    /\ dialog.open = "open" /\ dialog.other_y_enabled
    /\ dialog' = [dialog EXCEPT !.other_y = y]
    /\ UNCHANGED overlay_vars

\* The user toggles "Adjust georeferencing reference point", when enabled.
ToggleAdjustGeoreferencing ==
    /\ dialog.open = "open" /\ dialog.adjust_georeferencing_enabled
    /\ dialog' = [dialog EXCEPT !.adjust_georeferencing_checked = ~@]
    /\ UNCHANGED overlay_vars

\* The user toggles "Scale non-georeferenced templates", when enabled.
ToggleAdjustTemplates ==
    /\ dialog.open = "open" /\ dialog.adjust_templates_enabled
    /\ dialog' = [dialog EXCEPT !.adjust_templates_checked = ~@]
    /\ UNCHANGED overlay_vars

\* The Y field taken as it is.
CenterWithoutFlip(d) ==
    IF d.center_georef_checked THEN d.ref_point
    ELSE IF d.center_other_checked THEN << d.other_x, d.other_y >>
    ELSE << 0, 0 >>

\* The center okClicked() computes.
Center(d) ==
    IF d.center_georef_checked THEN d.ref_point
    ELSE IF d.center_other_checked THEN << d.other_x, -1 * d.other_y >>
    ELSE << 0, 0 >>

\* okClicked(): map->changeScale(...) and accept().
OkClicked ==
    /\ dialog.open = "open"
    /\ dialog' = [dialog EXCEPT
          !.open = "accepted",
          !.calls = Append(@, [center |-> Center(dialog),
                               adjust_georeferencing |-> dialog.adjust_georeferencing_checked,
                               adjust_templates |-> dialog.adjust_templates_checked])]
    /\ UNCHANGED overlay_vars

\* Cancel: QDialog::reject(), which calls nothing of the map.
Reject ==
    /\ dialog.open = "open"
    /\ dialog' = [dialog EXCEPT !.open = "rejected"]
    /\ UNCHANGED overlay_vars

\* ------------------------------------------------------------------ init
Init ==
    /\ locked_maps = << >>
    /\ stack = << >>
    /\ template_map = NoMap
    /\ template_state = "Unloaded"
    /\ error_string = ""
    /\ is_georeferenced \in BOOLEAN
    /\ transform = DefaultTransform
    /\ matrices = MatricesOf(DefaultTransform)
    /\ last = NoEvent
    /\ dialog = NoDialog

\* Values of the scale argument of drawTemplate.
Scales == {1, 3}
\* Resolutions of a display or an output device.
Dpis == {96}
\* Georeferencings of the overlay's map: valid or not, with a reference point.
RefPoints == {<< 0, 0 >>, << 10, -20 >>}
ForeignGeorefs == [valid : BOOLEAN, ref_point : RefPoints]
\* Georeferencings of the host map, by what they make of the overlay's points.
HostGeorefs ==
    {[valid |-> TRUE, turns |-> 0, scale |-> 1, offset |-> << 0, 0 >>],
     [valid |-> TRUE, turns |-> 1, scale |-> 2, offset |-> << 4, -2 >>],
     [valid |-> FALSE, turns |-> 3, scale |-> 1, offset |-> << -6, 2 >>]}
\* Values of the clip_rect argument of drawTemplate.
ClipRects ==
    {[left |-> 0, top |-> 0, right |-> 4, bottom |-> 2],
     [left |-> -2, top |-> -4, right |-> 6, bottom |-> 0]}
\* Maps a caller may hand to setTemplateMap.
GivenMaps == {GivenMap(0), GivenMap(1)}

\* A step of a running import: it reads a template, returns, or raises.
ImportStep ==
    \/ \E path \in Paths, has_importer \in BOOLEAN :
          ImportNestedTemplate(path, has_importer)
    \/ \E import_ok \in BOOLEAN, warnings \in WarningLists :
          FinishImport(import_ok, warnings)
    \/ ImportThrows

\* Loading map files whose templates are map files, and unloading.
Next ==
    \/ \E path \in Paths, configuring \in BOOLEAN, has_importer \in BOOLEAN :
          LoadTemplateFile(path, configuring, has_importer)
    \/ ImportStep
    \/ UnloadTemplateFile

Spec == Init /\ [][Next]_vars

\* The same, where a running import always takes its next step.
FairSpec == Spec /\ WF_vars(ImportStep)

\* The overlay's map of a file that declares no templates: loaded, handed
\* in, taken out, unloaded, measured, and the overlay copied.
NextMap ==
    \/ \E path \in Paths, configuring \in BOOLEAN, has_importer \in BOOLEAN :
          LoadTemplateFile(path, configuring, has_importer)
    \/ \E import_ok \in BOOLEAN, warnings \in WarningLists :
          FinishImport(import_ok, warnings)
    \/ UnloadTemplateFile
    \/ \E calculated \in Extents : GetTemplateExtent(calculated)
    \/ TakeTemplateMap
    \/ \E map \in GivenMaps : SetTemplateMap(map)
    \/ \E path \in Paths, has_importer \in BOOLEAN, import_ok \in BOOLEAN,
          n \in 0..MaxTemplates : Duplicate(path, has_importer, import_ok, n)

MapSpec == Init /\ [][NextMap]_vars

\* Positioning and drawing an overlay whose map file declares no templates.
NextDraw ==
    \/ \E path \in Paths, configuring \in BOOLEAN, has_importer \in BOOLEAN :
          LoadTemplateFile(path, configuring, has_importer)
    \/ \E import_ok \in BOOLEAN, warnings \in WarningLists :
          FinishImport(import_ok, warnings)
    \/ UnloadTemplateFile
    \/ \E foreign \in ForeignGeorefs, host \in HostGeorefs,
          ok0 \in BOOLEAN, ok1 \in BOOLEAN, ok2 \in BOOLEAN, fit \in BOOLEAN :
          PostLoadConfiguration(foreign, host, ok0, ok1, ok2, fit)
    \/ \E clip \in ClipRects, scale \in Scales, on_screen \in BOOLEAN, ppi \in Dpis,
          physical \in Dpis \cup {0, -1}, logical \in Dpis \cup {0, -1} :
          DrawTemplate(clip, scale, on_screen, ppi, physical, logical)

DrawSpec == Init /\ [][NextDraw]_vars

\* Reference points of the map the dialog is opened for.
DialogRefPoints == {<< 0, 0 >>, << 30, -40 >>}
\* Values a user types into the X and Y fields.
OtherValues == {-5, 0, 7}

\* A StretchMapDialog from its construction to OK or Cancel.
NextDialog ==
    \/ \E georef_valid \in BOOLEAN, ref_point \in DialogRefPoints,
          have_local_template \in BOOLEAN :
          StretchMapDialog(georef_valid, ref_point, have_local_template)
    \/ \E radio \in {"origin", "georef", "other"} : ClickRadio(radio)
    \/ \E x \in OtherValues : EditOtherX(x)
    \/ \E y \in OtherValues : EditOtherY(y)
    \/ ToggleAdjustGeoreferencing
    \/ ToggleAdjustTemplates
    \/ OkClicked
    \/ Reject

DialogSpec == Init /\ [][NextDialog]_vars

\* ================================================================ claims
\* The paths of the loadTemplateFileImpl calls whose import is running.
PathsInProgress == [i \in 1..Len(stack) |-> stack[i].path]

\* C1: a loadTemplateFileImpl called for a path that is in locked_maps
\* returns true, and no importer is made or run for that path by the call.
C1_NoReentrantImport ==
    /\ \A i \in 1..Len(stack) : ~stack[i].locked_at_call
    /\ last.op \in {"Load", "LoadThrew"} /\ last.locked_at_call =>
          /\ last.op = "Load"
          /\ last.result = TRUE
          /\ ~last.made_importer
          /\ ~last.ran_import

\* C1 witness: a nested Load of a path whose import is running has returned.
C1_Witness ==
    /\ last.op = "Load" /\ last.nested /\ last.locked_at_call /\ last.result
    /\ Contains(PathsInProgress, last.path)

\* C2 as stated: the recursion guard is empty after every Load returns,
\* nested Loads included.
C2_GuardEmptyAfterLoad ==
    last.op = "Load" => locked_maps = << >>

\* C2 amended: after a Load that was called for a path not in the guard
\* returns, whether its import succeeded or failed, the guard no longer
\* holds that Load's path; the guard need not be empty: after a nested Load
\* it still holds the paths of the enclosing Loads.
C2_OwnPathReleasedAfterLoad ==
    last.op = "Load" =>
        /\ ~last.locked_at_call => ~Contains(locked_maps, last.path)
        /\ \A i \in 1..Len(stack) : Contains(locked_maps, stack[i].path)

\* C2 witness: a nested Load whose import ran and failed has returned, and
\* the guard still holds the enclosing Load's path.
C2_Witness ==
    /\ last.op = "Load" /\ last.nested /\ last.ran_import /\ ~last.result
    /\ locked_maps = PathsInProgress /\ locked_maps # << >>

\* C3 as stated: at every moment the guard holds exactly the paths of the
\* Loads whose import is in progress, without duplicates, also after an
\* import that raised an error.
C3_GuardHoldsLoadsInProgress ==
    locked_maps = PathsInProgress

\* C4: loading map files whose template references form cycles ends: the
\* chain of running imports is never longer than the number of distinct
\* paths plus one, an outermost Load of a file that imports correctly
\* returns success, and every running Load comes to its end.
C4_CyclicLoadingTerminates ==
    /\ [](Len(stack) <= NumPaths + 1)
    /\ [](last.op = "Load" /\ ~last.nested /\ last.ran_import /\ last.import_ok
            => last.result)
    /\ [](stack # << >> => <>(stack = << >>))

\* C4 witness: the references run through every path and back to the
\* first; the Load that closes the cycle has returned success.
C4_Witness ==
    /\ Len(stack) = NumPaths
    /\ last.op = "Load" /\ last.locked_at_call /\ last.result
    /\ last.path = stack[1].path

\* C5 as stated: every Load that returns failure records an error string:
\* the importer's last warning when there was an importer, else the generic
\* message, whatever configuring is and whether or not there is a warning.
C5_FailedLoadRecordsError ==
    last.op = "Load" /\ ~last.result =>
        /\ last.made_importer => last.error \in Warnings
        /\ ~last.made_importer => last.error = GenericError
        /\ ~last.nested => error_string = last.error

\* C7: the map a Load with a successful import gives its overlay has no
\* templates, however many the file declared, and the overlay never holds
\* an imported map with templates.
C7_LoadedMapHasNoTemplates ==
    /\ template_map.origin = "load" => template_map.num_templates = 0
    /\ last.op = "Load" /\ last.ran_import /\ last.import_ok =>
          /\ last.result
          /\ last.new_map.origin = "load"
          /\ last.new_map.num_templates = 0
          /\ ~last.nested => template_map = last.new_map

\* C7 witness: the overlay holds the map of a file that declared as many
\* templates as a file may.
C7_Witness ==
    /\ last.op = "Load" /\ ~last.nested /\ last.result
    /\ last.num_templates = MaxTemplates
    /\ template_map = ImportedMap(0)

\* A Load of the overlay that failed as C6 says: there was no importer, or
\* the import reported failure.
OverlayLoadFailed ==
    /\ last.op = "Load" /\ ~last.nested /\ ~last.locked_at_call
    /\ ~last.made_importer \/ (last.ran_import /\ ~last.import_ok)

C8_TransformAllOrNothing ==
    last.op = "Configure" =>
        /\ last.result
        /\ IF last.ok = << TRUE, TRUE, TRUE >> /\ last.fit
           THEN /\ transform = FromQTransform(last.q_transform)
                /\ matrices = MatricesOf(transform)
           ELSE /\ transform = last.transform_before
                /\ matrices = last.matrices_before

\* C8 witness: the third mapping failed on an overlay that had a fitted
\* transform, which is still in place.
C8_Witness ==
    /\ last.op = "Configure" /\ last.ok = << TRUE, TRUE, FALSE >> /\ last.fit
    /\ last.transform_before # DefaultTransform
    /\ FromQTransform(last.q_transform) # last.transform_before
    /\ transform = last.transform_before

\* C9: on screen the renderer gets the scale mmToPixelPhysical(scale) and
\* the Screen flag; else no flag and scale * dpi / 25.4, dpi being the
\* physical DPI or, when that is 0, the logical DPI, and the scale itself
\* when that dpi is not greater than 0.
C9_DrawScale ==
    last.op = "Draw" =>
        IF last.on_screen
        THEN /\ "Screen" \in last.options
             /\ last.scaling = MmToPixelPhysical(last.scale, last.pixels_per_inch)
        ELSE /\ "Screen" \notin last.options
             /\ LET dpi == IF last.physical_dpi = 0 THEN last.logical_dpi
                           ELSE last.physical_dpi
                IN  IF dpi > 0
                    THEN last.scaling[1] * TenthMmPerInch = last.scale * dpi * 10 * last.scaling[2]
                    ELSE last.scaling = << last.scale, 1 >>

\* C9 witness: output rendering on a device that reports no DPI at all.
C9_Witness ==
    /\ last.op = "Draw" /\ ~last.on_screen
    /\ last.physical_dpi = 0 /\ last.logical_dpi = 0
    /\ last.scaling = << last.scale, 1 >>

\* C10: GetExtent returns the empty rectangle whenever the overlay holds no
\* map, so right after Unload and on an overlay that never loaded.
C10_ExtentEmptyWithoutMap ==
    last.op = "GetExtent" =>
        /\ template_map = NoMap => last.extent = EmptyRect
        /\ last.prev = "Unload" => last.extent = EmptyRect
        /\ last.prev = "none" => last.extent = EmptyRect

\* C10 witness: GetExtent right after the Unload of a loaded map.
C10_Witness ==
    /\ last.op = "GetExtent" /\ last.prev = "Unload"
    /\ last.prev_map.origin = "load"
    /\ last.extent = EmptyRect

\* C11: unloading twice in a row leaves the overlay as unloading once does
\* (no map, Unloaded), and unloading an overlay without a map changes
\* nothing of it.
C11_UnloadIdempotent ==
    last.op = "Unload" =>
        /\ template_map = NoMap
        /\ template_state = "Unloaded"
        /\ last.prev = "Unload" =>
              /\ template_map = last.map_before
              /\ template_state = last.state_before
        /\ last.map_before = NoMap => template_map = last.map_before

\* C11 witness: a second Unload right after the Unload of a loaded map.
C11_Witness ==
    /\ last.op = "Unload" /\ last.prev = "Unload"
    /\ last.prev_map.origin = "load"
    /\ template_map = NoMap /\ template_state = "Unloaded"

\* C12 as stated: after any sequence of Load, Unload, takeTemplateMap and
\* setTemplateMap an overlay that is not Loaded holds no map, and a map
\* taken out is no longer held by the overlay.
C12_MapOnlyWhileLoaded ==
    /\ template_state # "Loaded" => template_map = NoMap
    /\ last.op = "Take" /\ last.new_map # NoMap => template_map = NoMap

\* C12 amended: an overlay that is not Loaded holds no map except one
\* handed in through setTemplateMap, which stores the map and leaves the
\* state alone; a map taken out is no longer held by the overlay.
C12_MapOnlyWhileLoadedOrGiven ==
    /\ template_state # "Loaded" => template_map = NoMap \/ template_map.origin = "set"
    /\ last.op = "Take" /\ last.new_map # NoMap => template_map = NoMap
    /\ last.op = "Set" => template_map = last.new_map

\* C12 witness: the map of a Loaded overlay was taken out; the overlay is
\* Unloaded and holds none.
C12_Witness ==
    /\ last.op = "Take" /\ last.new_map.origin = "load"
    /\ template_state = "Unloaded" /\ template_map = NoMap

\* C15 as stated: an overlay whose state is Loaded owns a map: the overlay
\* itself, the object of any Load that returned success, and the copy
\* duplicate() makes of a Loaded overlay.
C15_LoadedOverlayOwnsMap ==
    /\ template_state = "Loaded" => template_map # NoMap
    /\ last.op = "Load" /\ last.result => last.ran_import
    /\ last.op = "Duplicate" /\ last.copy_state = "Loaded" => last.new_map # NoMap

\* C18: takeTemplateMap on a Loaded overlay returns its map, leaves it
\* without one and Unloaded, and emits templateStateChanged once; on any
\* other overlay it returns null and changes nothing; so the second of two
\* takes in a row returns null.
C18_TakeTemplateMapEffect ==
    last.op = "Take" =>
        /\ IF last.state_before = "Loaded"
           THEN /\ last.new_map = last.map_before
                /\ template_map = NoMap
                /\ template_state = "Unloaded"
                /\ last.emitted = 1
           ELSE /\ last.new_map = NoMap
                /\ template_map = last.map_before
                /\ template_state = last.state_before
                /\ last.emitted = 0
        /\ last.prev = "Take" => last.new_map = NoMap

\* C18 witness: a take right after the take that got the loaded map.
C18_Witness ==
    /\ last.op = "Take" /\ last.prev = "Take"
    /\ last.prev_map.origin = "load"
    /\ last.new_map = NoMap /\ last.emitted = 0

\* C13: postLoadConfiguration leaves is_georeferenced and out_center_in_view
\* false, returns success and leaves the overlay Loaded whether or not the
\* one estimation it runs succeeds; nothing sets is_georeferenced again, and
\* drawTemplate transforms the painter exactly when it is false: so every
\* Draw after Configure applies the overlay's transform.
C13_ConfigureThenDrawTransforms ==
    [][ /\ last'.op = "Configure" =>
              /\ ~is_georeferenced'
              /\ last'.out_center_in_view = FALSE
              /\ last'.result
              /\ template_state' = "Loaded"
              /\ transform' \in {transform, FromQTransform(last'.q_transform)}
        /\ ~is_georeferenced => ~is_georeferenced'
        /\ last'.op = "Draw" => last'.painter_transformed = ~is_georeferenced'
      ]_vars

\* C13 witness: Configure on an overlay that had is_georeferenced set, with
\* a failed estimation: it returned success, the overlay is Loaded and
\* is_georeferenced is false.
C13_Witness ==
    /\ last.op = "Configure" /\ last.georeferenced_before
    /\ ~PassPointsOk(last.ok[1], last.ok[2], last.ok[3], last.fit)
    /\ last.result /\ template_state = "Loaded" /\ ~is_georeferenced

\* C14: when both georeferencings are valid and the three mappings are ok,
\* the transform calculateTransformation stores (it stores one when the fit
\* succeeds) takes the reference point of the overlay's map to the point
\* the host georeferencing makes of it.
C14_TransformMapsReferencePoint ==
    last.op = "Configure" /\ last.foreign_georef.valid /\ last.host_georef.valid
        /\ PassPointsOk(last.ok[1], last.ok[2], last.ok[3], last.fit)
    => TemplateToMap(MatricesOf(transform), last.foreign_georef.ref_point)
          = ToMapCoordF(last.host_georef, last.foreign_georef.ref_point)

\* C14 witness: a fit for a reference point away from the origin and a host
\* georeferencing that turns, scales and shifts.
C14_Witness ==
    /\ last.op = "Configure" /\ last.foreign_georef.valid /\ last.host_georef.valid
    /\ PassPointsOk(last.ok[1], last.ok[2], last.ok[3], last.fit)
    /\ last.foreign_georef.ref_point # << 0, 0 >>
    /\ last.host_georef.turns = 1 /\ last.host_georef.scale = 2
    /\ TemplateToMap(MatricesOf(transform), last.foreign_georef.ref_point) = << 44, 18 >>

\* The three pass points of the last Configure are r -> image of r,
\* r + (128, 0) -> its image, r + (0, 128) -> its image, and the sources
\* are not on a line.
ThreePassPointsBuilt ==
    LET r == last.foreign_georef.ref_point
        pp == last.pass_points
    IN  /\ Len(pp) = 3
        /\ pp[1].src = r
        /\ pp[2].src = << r[1] + 128, r[2] >>
        /\ pp[3].src = << r[1], r[2] + 128 >>
        /\ Cross(pp[1].src, pp[2].src, pp[3].src) # 0
        /\ \A i \in 1..3 : pp[i].dest = ToMapCoordF(last.host_georef, pp[i].src)

\* C17 as stated: calculateTransformation builds exactly the three pass
\* points, and builds them only when both georeferencings are valid.
C17_PassPointsOnlyWhenValid ==
    last.op = "Configure" =>
        /\ ThreePassPointsBuilt
        /\ Len(last.pass_points) > 0 => last.foreign_georef.valid /\ last.host_georef.valid

\* C17 amended: calculateTransformation builds exactly the three pass
\* points on every call, whether or not the georeferencings are valid.
C17_PassPointsAlways ==
    last.op = "Configure" => ThreePassPointsBuilt

\* C17 witness: the three pass points built for a map whose georeferencing
\* is not valid.
C17_Witness ==
    /\ last.op = "Configure" /\ ~last.foreign_georef.valid
    /\ Len(last.pass_points) = 3
    /\ last.pass_points[3].src = << 10, 108 >>

\* C16: for a template that is not georeferenced drawTemplate transforms
\* the painter and hands the renderer the smallest rectangle that holds the
\* mapToTemplate images of the four corners of clip_rect; for a
\* georeferenced one it hands on clip_rect and leaves the painter alone.
C16_ClipRect ==
    last.op = "Draw" =>
        LET r == last.transformed_clip_rect
            c == last.clip_rect
            images == {MapToTemplate(matrices, p) :
                          p \in {<< c.left, c.top >>, << c.right, c.top >>,
                                 << c.left, c.bottom >>, << c.right, c.bottom >>}}
        IN  IF ~is_georeferenced
            THEN /\ last.painter_transformed
                 /\ \E p \in images : r.left = p[1]
                 /\ \E p \in images : r.right = p[1]
                 /\ \E p \in images : r.top = p[2]
                 /\ \E p \in images : r.bottom = p[2]
                 /\ \A p \in images : /\ r.left <= p[1] /\ p[1] <= r.right
                                      /\ r.top <= p[2] /\ p[2] <= r.bottom
            ELSE /\ ~last.painter_transformed
                 /\ r = c

\* C16 witness: a Draw under a fitted transform that turns and scales: the
\* rectangle handed on is not the one that came in.
C16_Witness ==
    /\ last.op = "Draw" /\ ~is_georeferenced
    /\ transform.rotation = 1 /\ transform.scale_x = 2
    /\ last.clip_rect = [left |-> 0, top |-> 0, right |-> 4, bottom |-> 2]
    /\ last.transformed_clip_rect = [left |-> 1, top |-> 0, right |-> 2, bottom |-> 2]

\* C19 as stated: "Adjust georeferencing reference point" is enabled only
\* for a map whose georeferencing is valid; for any other map it stays
\* disabled and unchecked, and OK never asks changeScale to adjust the
\* georeferencing of such a map.
C19_AdjustGeoreferencingOnlyWhenValid ==
    /\ dialog.open = "open" /\ dialog.adjust_georeferencing_enabled => dialog.georef_valid
    /\ dialog.open # "none" /\ ~dialog.georef_valid => ~dialog.adjust_georeferencing_checked
    /\ \A i \in 1..Len(dialog.calls) :
          dialog.calls[i].adjust_georeferencing => dialog.georef_valid

\* C20: OK calls changeScale once, with the reference point as center when
\* the georeferencing radio is checked, (x, -y) when "other point" is, and
\* (0, 0) otherwise; the georeferencing radio is never checked for a map
\* without valid georeferencing; one radio is checked at a time, and the X
\* and Y fields are enabled exactly when "other point" is.
C20_CenterOfScaling ==
    /\ dialog.open = "none" => dialog.calls = << >>
    /\ dialog.open = "rejected" => dialog.calls = << >>
    /\ dialog.open = "open" =>
          /\ dialog.calls = << >>
          /\ dialog.other_x_enabled = dialog.center_other_checked
          /\ dialog.other_y_enabled = dialog.center_other_checked
    /\ dialog.open # "none" =>
          /\ dialog.center_georef_checked => dialog.georef_valid
          /\ Cardinality({r \in {"origin", "georef", "other"} :
                \/ r = "origin" /\ dialog.center_origin_checked
                \/ r = "georef" /\ dialog.center_georef_checked
                \/ r = "other" /\ dialog.center_other_checked}) = 1
    /\ dialog.open = "accepted" =>
          /\ Len(dialog.calls) = 1
          /\ dialog.center_georef_checked => dialog.calls[1].center = dialog.ref_point
          /\ dialog.center_other_checked =>
                dialog.calls[1].center = << dialog.other_x, 0 - dialog.other_y >>
          /\ dialog.center_origin_checked => dialog.calls[1].center = << 0, 0 >>

\* C20 witness: OK after "other point" was chosen and X and Y were typed
\* in, for a map with valid georeferencing.
C20_Witness ==
    /\ dialog.open = "accepted" /\ dialog.georef_valid
    /\ dialog.center_other_checked
    /\ dialog.other_x = 7 /\ dialog.other_y = -5
    /\ dialog.calls = << [center |-> << 7, 5 >>,
                          adjust_georeferencing |-> dialog.adjust_georeferencing_checked,
                          adjust_templates |-> dialog.adjust_templates_checked] >>

====
